---- MODULE Spec2Model ----
(***************************************************************************)
(* Model of aqmsp_models: the DeepTime / ConvGNP fit -> predict pipeline   *)
(* (training loop, checkpoint-on-improvement, persisted min/max stats,     *)
(* positional storage of predictions), the DeepTime closed-form ridge      *)
(* head, the random context/target split and the random-forest baseline.   *)
(*                                                                         *)
(* Real numbers are exact rationals <<num, den>> with den >= 0; den = 0    *)
(* encodes the IEEE specials: <<0,0>> is NaN, <<1,0>> is +inf and          *)
(* <<-1,0>> is -inf.                                                       *)
(***************************************************************************)
EXTENDS Integers, Sequences, FiniteSets, TLC

\* ------------------------------------------------------------------ bounds
NumTimes == 2
MaxSteps == 4
MaxLoss == 5
MaxFeat == 1
MaxCtx == 3
MaxN == 10
FracDen == 10
RngSize == 6

\* ------------------------------------------------------------ IEEE rationals
Abs(n) == IF n < 0 THEN -n ELSE n

Sgn(n) == IF n < 0 THEN -1 ELSE IF n > 0 THEN 1 ELSE 0

RECURSIVE GCD(_, _)
GCD(a, b) == IF b = 0 THEN a ELSE GCD(b, a % b)

Norm(a) ==
    IF a[2] = 0 THEN <<Sgn(a[1]), 0>>
    ELSE LET g == GCD(Abs(a[1]), a[2]) IN <<a[1] \div g, a[2] \div g>>

R(n) == <<n, 1>>

NaN == <<0, 0>>

Inf == <<1, 0>>

IsNaN(a) == a[1] = 0 /\ a[2] = 0

IsFinite(a) == a[2] > 0

RAdd(a, b) ==
    IF IsNaN(a) \/ IsNaN(b) THEN NaN
    ELSE IF a[2] = 0 /\ b[2] = 0 THEN (IF a[1] = b[1] THEN a ELSE NaN)
    ELSE IF a[2] = 0 THEN a
    ELSE IF b[2] = 0 THEN b
    ELSE LET g == GCD(a[2], b[2])
         IN  Norm(<<a[1] * (b[2] \div g) + b[1] * (a[2] \div g),
                    (a[2] \div g) * b[2]>>)

RNeg(a) == <<-a[1], a[2]>>

RSub(a, b) == RAdd(a, RNeg(b))

RMul(a, b) ==
    IF IsNaN(a) \/ IsNaN(b) THEN NaN
    ELSE IF a[2] = 0 \/ b[2] = 0 THEN <<Sgn(a[1]) * Sgn(b[1]), 0>>
    ELSE LET g == GCD(Abs(a[1]), b[2])
             h == GCD(Abs(b[1]), a[2])
         IN  Norm(<<(a[1] \div g) * (b[1] \div h),
                    (a[2] \div h) * (b[2] \div g)>>)

RDiv(a, b) ==
    IF IsNaN(a) \/ IsNaN(b) THEN NaN
    ELSE IF a[2] = 0 /\ b[2] = 0 THEN NaN
    ELSE IF a[2] = 0 THEN <<a[1] * (IF b[1] < 0 THEN -1 ELSE 1), 0>>
    ELSE IF b[2] = 0 THEN R(0)
    ELSE IF b[1] = 0 THEN <<Sgn(a[1]), 0>>
    ELSE LET g == GCD(Abs(a[1]), Abs(b[1]))
             h == GCD(b[2], a[2])
         IN  Norm(<<(a[1] \div g) * (b[2] \div h) * Sgn(b[1]),
                    (a[2] \div h) * (Abs(b[1]) \div g)>>)

\* a < b as IEEE compares: FALSE whenever either side is NaN
RLt(a, b) ==
    /\ ~IsNaN(a)
    /\ ~IsNaN(b)
    /\ IF a[2] = 0 /\ b[2] = 0 THEN a[1] < b[1] ELSE a[1] * b[2] < b[1] * a[2]

RLe(a, b) == RLt(a, b) \/ (~IsNaN(a) /\ a = b)

\* ------------------------------------------------------------------ helpers
Range(s) == {s[i] : i \in 1..Len(s)}

SetMin(S) == CHOOSE x \in S : \A y \in S : x <= y

SetMax(S) == CHOOSE x \in S : \A y \in S : x >= y

InjSeqs(S) ==
    UNION {{s \in [1..n -> S] : \A i, j \in 1..n : i # j => s[i] # s[j]} :
           n \in 1..Cardinality(S)}

\* --------------------------------------------------------------------- data
Times == 1..NumTimes

TrainStations == {1, 2}

TestStations == {3, 4}

FeatVals == 0..MaxFeat

LossVals == 2..MaxLoss

VARIABLES
    pc, err, trainFeat, testFeat, testTs, cfgEpochs, cfgBatch,
    meta_dict, train_df, test_df, epoch, batchIdx, epoch_loss, losses,
    best_loss, paramsNaN, saved, modelFile, metaFile, predFile, meta,
    y_pred

runVars ==
    <<pc, err, trainFeat, testFeat, testTs, cfgEpochs, cfgBatch,
      meta_dict, train_df, test_df, epoch, batchIdx, epoch_loss, losses,
      best_loss, paramsNaN, saved, modelFile, metaFile, predFile, meta,
      y_pred>>

VARIABLES
    fw_pc, enc, repr_dim, noise_var, x_context, y_context, x_target,
    mean, var, y_norm, context_repr, target_repr, cov, xty, chol, w, y_pred_n, y_out

fwdVars ==
    <<fw_pc, enc, repr_dim, noise_var, x_context, y_context, x_target,
      mean, var, y_norm, context_repr, target_repr, cov, xty, chol, w, y_pred_n,
      y_out>>

VARIABLES
    sp_pc, df_rows, df_missing, context_fraction, np_state, X, idx,
    X_context, X_target

splitVars ==
    <<sp_pc, df_rows, df_missing, context_fraction, np_state, X, idx,
      X_context, X_target>>

VARIABLES
    sd_pc, random_state, sd_rows, torch_rng, np_rng, order, pos, perms, permsA

seedVars ==
    <<sd_pc, random_state, sd_rows, torch_rng, np_rng, order, pos, perms,
      permsA>>

VARIABLES
    rf_pc, rf_call, rf_err, rf_disk, fit_outcome, predict_outcome,
    pred_y_list, rf_file

rfVars ==
    <<rf_pc, rf_call, rf_err, rf_disk, fit_outcome, predict_outcome,
      pred_y_list, rf_file>>

vars == <<runVars, fwdVars, splitVars, seedVars, rfVars>>

\* ------------------------------------------------------------- fit (57-134)
NoStats == [min |-> 0, max |-> 0]

\* train_data[feature].min() / .max()
FeatureStats(feat) ==
    [min |-> SetMin({feat[s] : s \in DOMAIN feat}),
     max |-> SetMax({feat[s] : s \in DOMAIN feat})]

\* (df[feature] - fet_min) / (fet_max - fet_min)
MinMaxScale(feat, st) ==
    [s \in DOMAIN feat |-> RDiv(R(feat[s] - st.min), R(st.max - st.min))]

\* len(dataloader): ceil(len(dataset) / batch_size)
NumBatches(bs) == (NumTimes + bs - 1) \div bs

\* what one minibatch's loss.item() can be: once a NaN loss has been
\* back-propagated the parameters are NaN and so is every later loss
BatchLosses(poisoned) ==
    IF poisoned THEN {NaN} ELSE {R(v) : v \in LossVals} \cup {NaN}

ImprovesLe(loss, best) == RLe(loss, best)

\* if losses[-1] < best_loss
Improves(loss, best) == RLt(loss, best)

AfterEpochStop(e, n) == "fit_end"

\* for epoch in range(config.epochs)
AfterEpoch(e, n) == IF e < n THEN "batch" ELSE "fit_end"

FitStart ==
    /\ pc = "start"
    /\ meta_dict' = FeatureStats(trainFeat)
    /\ train_df' = MinMaxScale(trainFeat, FeatureStats(trainFeat))
    /\ losses' = <<>>
    /\ best_loss' = Inf
    /\ epoch' = 0
    /\ batchIdx' = 0
    /\ epoch_loss' = R(0)
    /\ pc' = AfterEpoch(0, cfgEpochs)
    /\ UNCHANGED <<err, trainFeat, testFeat, testTs, cfgEpochs, cfgBatch,
                   test_df, paramsNaN, saved, modelFile, metaFile, predFile,
                   meta, y_pred>>
    /\ UNCHANGED <<fwdVars, splitVars, seedVars, rfVars>>

FitBatch ==
    /\ pc = "batch"
    /\ \E v \in BatchLosses(paramsNaN) :
        /\ epoch_loss' = RAdd(epoch_loss, v)
        /\ paramsNaN' = (paramsNaN \/ IsNaN(v))
    /\ batchIdx' = batchIdx + 1
    /\ pc' = IF batchIdx + 1 < NumBatches(cfgBatch) THEN "batch" ELSE "epoch_end"
    /\ UNCHANGED <<err, trainFeat, testFeat, testTs, cfgEpochs, cfgBatch,
                   meta_dict, train_df, test_df, epoch, losses, best_loss,
                   saved, modelFile, metaFile, predFile, meta, y_pred>>
    /\ UNCHANGED <<fwdVars, splitVars, seedVars, rfVars>>

\* torch.linalg.cholesky raises inside cnp(...) for this minibatch
FitBatchRaise ==
    /\ pc = "batch"
    /\ pc' = "raised"
    /\ err' = "fit"
    /\ UNCHANGED <<trainFeat, testFeat, testTs, cfgEpochs, cfgBatch,
                   meta_dict, train_df, test_df, epoch, batchIdx, epoch_loss,
                   losses, best_loss, paramsNaN, saved, modelFile, metaFile,
                   predFile, meta, y_pred>>
    /\ UNCHANGED <<fwdVars, splitVars, seedVars, rfVars>>

FitEpochEnd ==
    /\ pc = "epoch_end"
    /\ LET avg == RDiv(epoch_loss, R(NumBatches(cfgBatch)))
           better == Improves(avg, best_loss)
       IN  /\ losses' = Append(losses, avg)
           /\ best_loss' = IF better THEN avg ELSE best_loss
           /\ modelFile' = IF better
                           THEN [state |-> "run", epoch |-> epoch + 1]
                           ELSE modelFile
           /\ saved' = Append(saved, better)
    /\ epoch' = epoch + 1
    /\ batchIdx' = 0
    /\ epoch_loss' = R(0)
    /\ pc' = AfterEpoch(epoch + 1, cfgEpochs)
    /\ UNCHANGED <<err, trainFeat, testFeat, testTs, cfgEpochs, cfgBatch,
                   meta_dict, train_df, test_df, paramsNaN, metaFile,
                   predFile, meta, y_pred>>
    /\ UNCHANGED <<fwdVars, splitVars, seedVars, rfVars>>

FitSaveMeta ==
    /\ pc = "fit_end"
    /\ metaFile' = [state |-> "run", min |-> meta_dict.min,
                    max |-> meta_dict.max, nlosses |-> Len(losses)]
    /\ pc' = "predict"
    /\ UNCHANGED <<err, trainFeat, testFeat, testTs, cfgEpochs, cfgBatch,
                   meta_dict, train_df, test_df, epoch, batchIdx, epoch_loss,
                   losses, best_loss, paramsNaN, saved, modelFile, predFile,
                   meta, y_pred>>
    /\ UNCHANGED <<fwdVars, splitVars, seedVars, rfVars>>

\* -------------------------------------------------------- predict (137-193)
StatsFromTest(m, test) == FeatureStats(test)

\* fet_min = meta[f"{feature}_min"]; fet_max = meta[f"{feature}_max"]
StatsFromMeta(m, test) == [min |-> m.min, max |-> m.max]

\* CustomDataset.ts = train_df.time.unique(): the training times in order
DatasetTs == [k \in 1..NumTimes |-> k]

\* CustomDataset.__getitem__(idx): rows of both tables whose time is ts[idx]
GetItem(i) ==
    LET t == DatasetTs[i]
    IN  [time |-> t,
         ctx |-> {<<t, s>> : s \in TrainStations},
         tgt |-> IF t \in Range(testTs)
                 THEN {<<t, s>> : s \in TestStations} ELSE {}]

\* DataLoader(dataset, batch_size, shuffle=False): the b-th batch's items
SeqOfBatch(b, bs) ==
    LET first == (b - 1) * bs + 1
        last == IF b * bs < NumTimes THEN b * bs ELSE NumTimes
    IN  [k \in 1..(last - first + 1) |-> GetItem(first + k - 1)]

\* default collate stacks the items: they must have equally many rows
CollateOk(items) ==
    \A i, j \in 1..Len(items) :
        Cardinality(items[i].tgt) = Cardinality(items[j].tgt)

\* np.concatenate(axis=0) then .squeeze(): the shape of the stored array
Squeeze(shape) ==
    LET keep == {i \in 1..Len(shape) : shape[i] # 1}
        RECURSIVE Build(_)
        Build(i) == IF i > Len(shape) THEN <<>>
                    ELSE IF i \in keep THEN <<shape[i]>> \o Build(i + 1)
                    ELSE Build(i + 1)
    IN  Build(1)

ConcatOk(rows) ==
    \A i, j \in 1..Len(rows) :
        Cardinality(rows[i].tgt) = Cardinality(rows[j].tgt)

\* test_data[...] = (("time", "station"), y_pred.squeeze())
AssignOk(rows) ==
    /\ ConcatOk(rows)
    /\ Squeeze(<<Len(rows), Cardinality(rows[1].tgt), 1>>)
         = <<Len(testTs), Cardinality(TestStations)>>

PredictLoadMeta ==
    /\ pc = "predict"
    /\ IF metaFile.state = "absent"
       THEN /\ pc' = "raised"
            /\ err' = "predict"
            /\ UNCHANGED <<meta, train_df, test_df>>
       ELSE /\ meta' = [min |-> metaFile.min, max |-> metaFile.max]
            /\ train_df' = MinMaxScale(trainFeat, StatsFromMeta(metaFile, testFeat))
            /\ test_df' = MinMaxScale(testFeat, StatsFromMeta(metaFile, testFeat))
            /\ pc' = "load_model"
            /\ UNCHANGED err
    /\ UNCHANGED <<trainFeat, testFeat, testTs, cfgEpochs, cfgBatch,
                   meta_dict, epoch, batchIdx, epoch_loss, losses, best_loss,
                   paramsNaN, saved, modelFile, metaFile, predFile, y_pred>>
    /\ UNCHANGED <<fwdVars, splitVars, seedVars, rfVars>>

PredictLoadModel ==
    /\ pc = "load_model"
    /\ IF modelFile.state = "absent"
       THEN pc' = "raised" /\ err' = "predict"
       ELSE pc' = "pbatch" /\ UNCHANGED err
    /\ batchIdx' = 0
    /\ y_pred' = <<>>
    /\ UNCHANGED <<trainFeat, testFeat, testTs, cfgEpochs, cfgBatch,
                   meta_dict, train_df, test_df, epoch, epoch_loss, losses,
                   best_loss, paramsNaN, saved, modelFile, metaFile, predFile,
                   meta>>
    /\ UNCHANGED <<fwdVars, splitVars, seedVars, rfVars>>

PredictBatch ==
    /\ pc = "pbatch"
    /\ LET items == SeqOfBatch(batchIdx + 1, cfgBatch)
       IN  IF CollateOk(items)
           THEN /\ y_pred' = y_pred \o items
                /\ batchIdx' = batchIdx + 1
                /\ pc' = IF batchIdx + 1 < NumBatches(cfgBatch)
                         THEN "pbatch" ELSE "store"
                /\ UNCHANGED err
           ELSE /\ pc' = "raised"
                /\ err' = "predict"
                /\ UNCHANGED <<y_pred, batchIdx>>
    /\ UNCHANGED <<trainFeat, testFeat, testTs, cfgEpochs, cfgBatch,
                   meta_dict, train_df, test_df, epoch, epoch_loss, losses,
                   best_loss, paramsNaN, saved, modelFile, metaFile, predFile,
                   meta>>
    /\ UNCHANGED <<fwdVars, splitVars, seedVars, rfVars>>

\* torch.linalg.cholesky raises inside cnp(train_X, train_y, test_X)
PredictBatchRaise ==
    /\ pc = "pbatch"
    /\ pc' = "raised"
    /\ err' = "predict"
    /\ UNCHANGED <<trainFeat, testFeat, testTs, cfgEpochs, cfgBatch,
                   meta_dict, train_df, test_df, epoch, batchIdx, epoch_loss,
                   losses, best_loss, paramsNaN, saved, modelFile, metaFile,
                   predFile, meta, y_pred>>
    /\ UNCHANGED <<fwdVars, splitVars, seedVars, rfVars>>

PredictStore ==
    /\ pc = "store"
    /\ IF AssignOk(y_pred)
       THEN /\ predFile' = [state |-> "run", rows |-> y_pred]
            /\ pc' = "done"
            /\ UNCHANGED err
       ELSE /\ pc' = "raised"
            /\ err' = "predict"
            /\ UNCHANGED predFile
    /\ UNCHANGED <<trainFeat, testFeat, testTs, cfgEpochs, cfgBatch,
                   meta_dict, train_df, test_df, epoch, batchIdx, epoch_loss,
                   losses, best_loss, paramsNaN, saved, modelFile, metaFile,
                   meta, y_pred>>
    /\ UNCHANGED <<fwdVars, splitVars, seedVars, rfVars>>

\* ------------------------------------------- DeepTime.forward (deeptime 26-54)
\* The standard deviation is irrational in general, so the model keeps the
\* variance `var` (std squared) and holds every quantity of the normalised
\* scale (y_norm, xty, w, y_pred) as its exact rational multiple of 1/std;
\* the solve is linear in y, so the unit carries through unchanged.  When
\* std is NaN or 0 the quantities are plain IEEE values (NaN, or a true 0).
FeatX == {0, 1}

ReprVals == {-1, 2}

ReprDims == {1, 2}

\* torch.exp(self.log_noise_var): a positive number, below or at one
NoiseVars == {<<1, 4>>, <<1, 1>>}

YVals == {0, 1}

RECURSIVE SumTo(_, _)
SumTo(f, k) == IF k = 0 THEN R(0) ELSE RAdd(SumTo(f, k - 1), f[k])

RSum(f) == SumTo(f, Len(f))

\* y_context.mean(dim=1): 0/0 = NaN over an empty axis
Mean(y) == RDiv(RSum([i \in 1..Len(y) |-> R(y[i])]), R(Len(y)))

\* y_context.std(dim=1) squared: the unbiased estimate, NaN for 0 or 1 point
Variance(y) ==
    IF Len(y) = 0 THEN NaN
    ELSE LET m == Mean(y)
             d == [i \in 1..Len(y) |-> RSub(R(y[i]), m)]
         IN  RDiv(RSum([i \in 1..Len(y) |-> RMul(d[i], d[i])]), R(Len(y) - 1))

\* (y_context - mean) / std, in units of 1/std when std is a positive number
Normalise(y, m, v) ==
    [i \in 1..Len(y) |->
        IF IsFinite(v) /\ v[1] > 0 THEN RSub(R(y[i]), m)
        ELSE RDiv(RSub(R(y[i]), m), v)]

\* self.mlp(x): one representation row per point
Mlp(xs) == [n \in 1..Len(xs) |-> [j \in 1..repr_dim |-> R(enc[xs[n]][j])]]

\* torch.cat([repr, torch.ones(n, 1)], dim=1)
AddBias(M) == [n \in 1..Len(M) |-> Append(M[n], R(1))]

\* context_repr.T @ context_repr
Gram(P, n) ==
    [i \in 1..n |-> [j \in 1..n |->
        RSum([r \in 1..Len(P) |-> RMul(P[r][i], P[r][j])])]]

DiagAddSkipBias(A, s2) ==
    [i \in 1..Len(A) |-> [j \in 1..Len(A) |->
        IF i = j /\ i < Len(A) THEN RAdd(A[i][j], s2) ELSE A[i][j]]]

\* cov.diagonal().add_(torch.exp(self.log_noise_var))
DiagAdd(A, s2) ==
    [i \in 1..Len(A) |-> [j \in 1..Len(A) |->
        IF i = j THEN RAdd(A[i][j], s2) ELSE A[i][j]]]

\* context_repr.T @ y_context
MatTVec(P, y, n) ==
    [i \in 1..n |-> RSum([r \in 1..Len(P) |-> RMul(P[r][i], y[r])])]

\* torch.linalg.cholesky(cov) = L * sqrt(D) with L unit lower triangular and
\* D the pivots; the factor is held as the pair (L, D), L[i] being the part
\* of row i left of the diagonal.  The factor exists exactly when every
\* pivot is a positive number, and the call raises otherwise.
RECURSIVE CholRow(_, _, _, _, _)
CholRow(A, L, D, i, row) ==
    IF Len(row) = i - 1 THEN row
    ELSE LET j == Len(row) + 1
             s == RSum([k \in 1..(j - 1) |->
                        RMul(RMul(row[k], L[j][k]), D[k])])
         IN  CholRow(A, L, D, i, Append(row, RDiv(RSub(A[i][j], s), D[j])))

RECURSIVE CholRows(_, _, _)
CholRows(A, L, D) ==
    IF Len(D) = Len(A) THEN [L |-> L, D |-> D]
    ELSE LET i == Len(D) + 1
             row == CholRow(A, L, D, i, <<>>)
             s == RSum([k \in 1..(i - 1) |->
                        RMul(RMul(row[k], row[k]), D[k])])
         IN  CholRows(A, Append(L, row), Append(D, RSub(A[i][i], s)))

Cholesky(A) ==
    LET f == CholRows(A, <<>>, <<>>)
    IN  [ok |-> \A j \in 1..Len(A) : IsFinite(f.D[j]) /\ f.D[j][1] > 0,
         L |-> f.L, D |-> f.D]

\* torch.cholesky_solve(xty, chol): forward then backward substitution
RECURSIVE ForwardSub(_, _, _)
ForwardSub(L, b, z) ==
    IF Len(z) = Len(b) THEN z
    ELSE LET i == Len(z) + 1
         IN  ForwardSub(L, b,
                 Append(z, RSub(b[i], RSum([k \in 1..(i - 1) |->
                                            RMul(L[i][k], z[k])]))))

RECURSIVE BackwardSub(_, _, _)
BackwardSub(L, u, wtail) ==
    IF Len(wtail) = Len(u) THEN wtail
    ELSE LET n == Len(u)
             i == n - Len(wtail)
         IN  BackwardSub(L, u,
                 <<RSub(u[i], RSum([k \in 1..(n - i) |->
                                    RMul(L[i + k][i], wtail[k])]))>> \o wtail)

CholeskySolve(b, ch) ==
    LET z == ForwardSub(ch.L, b, <<>>)
        u == [i \in 1..Len(b) |-> RDiv(z[i], ch.D[i])]
    IN  BackwardSub(ch.L, u, <<>>)

\* target_repr @ w
MatVec(P, x) ==
    [r \in 1..Len(P) |-> RSum([j \in 1..Len(x) |-> RMul(P[r][j], x[j])])]

DenormaliseMissing(p, m, v) == p

\* y_pred * std + mean
Denormalise(p, m, v) ==
    [r \in 1..Len(p) |->
        IF IsFinite(v) /\ v[1] > 0 THEN RAdd(p[r], m)
        ELSE RAdd(RMul(p[r], v), m)]

NoMatrix == <<>>

FwNormalise ==
    /\ fw_pc = "start"
    /\ mean' = Mean(y_context)
    /\ var' = Variance(y_context)
    /\ y_norm' = Normalise(y_context, Mean(y_context), Variance(y_context))
    /\ fw_pc' = "encode"
    /\ UNCHANGED <<enc, repr_dim, noise_var, x_context, y_context,
                   x_target, context_repr, target_repr, cov, xty, chol, w,
                   y_pred_n, y_out>>
    /\ UNCHANGED <<runVars, splitVars, seedVars, rfVars>>

FwEncode ==
    /\ fw_pc = "encode"
    /\ context_repr' = AddBias(Mlp(x_context))
    /\ target_repr' = AddBias(Mlp(x_target))
    /\ fw_pc' = "assemble"
    /\ UNCHANGED <<enc, repr_dim, noise_var, x_context, y_context,
                   x_target, mean, var, y_norm, cov, xty, chol, w, y_pred_n,
                   y_out>>
    /\ UNCHANGED <<runVars, splitVars, seedVars, rfVars>>

FwAssemble ==
    /\ fw_pc = "assemble"
    /\ cov' = DiagAdd(Gram(context_repr, repr_dim + 1), noise_var)
    /\ xty' = MatTVec(context_repr, y_norm, repr_dim + 1)
    /\ fw_pc' = "factor"
    /\ UNCHANGED <<enc, repr_dim, noise_var, x_context, y_context,
                   x_target, mean, var, y_norm, context_repr, target_repr,
                   chol, w, y_pred_n, y_out>>
    /\ UNCHANGED <<runVars, splitVars, seedVars, rfVars>>

FwSolve ==
    /\ fw_pc = "factor"
    /\ LET ch == Cholesky(cov)
           sol == CholeskySolve(xty, ch)
       IN  IF ch.ok
           THEN /\ chol' = [L |-> ch.L, D |-> ch.D]
                /\ w' = sol
                /\ y_pred_n' = MatVec(target_repr, sol)
                /\ fw_pc' = "solved"
           ELSE /\ fw_pc' = "raised"
                /\ UNCHANGED <<chol, w, y_pred_n>>
    /\ UNCHANGED <<enc, repr_dim, noise_var, x_context, y_context,
                   x_target, mean, var, y_norm, context_repr, target_repr,
                   cov, xty, y_out>>
    /\ UNCHANGED <<runVars, splitVars, seedVars, rfVars>>

FwPredict ==
    /\ fw_pc = "solved"
    /\ y_out' = Denormalise(y_pred_n, mean, var)
    /\ fw_pc' = "done"
    /\ UNCHANGED <<enc, repr_dim, noise_var, x_context, y_context,
                   x_target, mean, var, y_norm, context_repr, target_repr,
                   cov, xty, chol, w, y_pred_n>>
    /\ UNCHANGED <<runVars, splitVars, seedVars, rfVars>>

\* ------------------------- fit.CustomDataset.__getitem__ (deeptime 84-96)
RECURSIVE Fact(_)
Fact(n) == IF n <= 1 THEN 1 ELSE n * Fact(n - 1)

RemoveAt(s, i) == [k \in 1..(Len(s) - 1) |-> IF k < i THEN s[k] ELSE s[k + 1]]

\* the k-th arrangement of items, k in 0..Len(items)!-1
RECURSIVE NthPerm(_, _)
NthPerm(items, k) ==
    IF Len(items) = 0 THEN <<>>
    ELSE LET f == Fact(Len(items) - 1)
         IN  <<items[(k \div f) + 1]>>
               \o NthPerm(RemoveAt(items, (k \div f) + 1), k % f)

\* a generator is a deterministic function of its state: the permutation it
\* returns and the state it is left in
RngStates == 0..(RngSize - 1)

Permutation(n, state) == NthPerm([i \in 1..n |-> i], state % Fact(n))

RngAdvance(state) == (state + 1) % RngSize

\* ts_df.dropna(subset=[config.target]): the rows whose target is present
DropNa(n, missing) ==
    LET RECURSIVE Keep(_)
        Keep(i) == IF i > n THEN <<>>
                   ELSE IF i \in missing THEN Keep(i + 1)
                   ELSE <<i>> \o Keep(i + 1)
    IN  Keep(1)

NumContextCeil(f, n) == (f[1] * n + f[2] - 1) \div f[2]

\* int(config.context_fraction * len(X))
NumContext(f, n) == (f[1] * n) \div f[2]

\* X[idx[:num_context]]
TakeFirst(rows, p, nc) == [k \in 1..nc |-> rows[p[k]]]

\* X[idx[num_context:]]
DropFirst(rows, p, nc) == [k \in 1..(Len(p) - nc) |-> rows[p[nc + k]]]

GetItemSplit ==
    /\ sp_pc \in {"start", "done"}
    /\ LET rows == DropNa(df_rows, df_missing)
           p == Permutation(Len(rows), np_state)
           nc == NumContext(context_fraction, Len(rows))
       IN  /\ X' = rows
           /\ idx' = p
           /\ X_context' = TakeFirst(rows, p, nc)
           /\ X_target' = DropFirst(rows, p, nc)
    /\ np_state' = RngAdvance(np_state)
    /\ sp_pc' = "done"
    /\ UNCHANGED <<df_rows, df_missing, context_fraction>>
    /\ UNCHANGED <<runVars, fwdVars, seedVars, rfVars>>

\* ----------------- two calls of fit with one config.random_state (57-99)
TorchStates == {0, 1}

Seeds == {0, 1}

\* torch.manual_seed(config.random_state): the torch generator only
ManualSeed(seed) == seed % 2

\* first call: torch.manual_seed, then the DataLoader(shuffle=True) draws the
\* order of the time-steps from the torch generator
FitSeed ==
    /\ sd_pc \in {"A_seed", "B_seed"}
    /\ torch_rng' = RngAdvance(ManualSeed(random_state))
    /\ order' = Permutation(NumTimes, ManualSeed(random_state))
    /\ pos' = 0
    /\ perms' = [t \in Times |-> <<>>]
    /\ sd_pc' = IF sd_pc = "A_seed" THEN "A_iter" ELSE "B_iter"
    /\ UNCHANGED <<random_state, sd_rows, np_rng, permsA>>
    /\ UNCHANGED <<runVars, fwdVars, splitVars, rfVars>>

\* __getitem__ of the next time-step: np.random.permutation(len(X))
FitGetItem ==
    /\ sd_pc \in {"A_iter", "B_iter"}
    /\ pos < NumTimes
    /\ perms' = [perms EXCEPT ![order[pos + 1]] = Permutation(sd_rows, np_rng)]
    /\ np_rng' = RngAdvance(np_rng)
    /\ pos' = pos + 1
    /\ UNCHANGED <<sd_pc, random_state, sd_rows, torch_rng, order, permsA>>
    /\ UNCHANGED <<runVars, fwdVars, splitVars, rfVars>>

\* the first call returns; the call is repeated, in this process or in a
\* new one, with the generators in whatever state they are then
FitAgain ==
    /\ sd_pc = "A_iter"
    /\ pos = NumTimes
    /\ permsA' = perms
    /\ \E tr \in TorchStates, nr \in RngStates :
        /\ torch_rng' = tr
        /\ np_rng' = nr
    /\ sd_pc' = "B_seed"
    /\ UNCHANGED <<random_state, sd_rows, order, pos, perms>>
    /\ UNCHANGED <<runVars, fwdVars, splitVars, rfVars>>

FitReturn ==
    /\ sd_pc = "B_iter"
    /\ pos = NumTimes
    /\ sd_pc' = "done"
    /\ UNCHANGED <<random_state, sd_rows, torch_rng, np_rng, order, pos,
                   perms, permsA>>
    /\ UNCHANGED <<runVars, fwdVars, splitVars, rfVars>>

\* ------------------------------------------- random forest (rf/model.py)
RfModes == {"fit", "predict", "fit_predict"}

\* what model.fit does on a time-step's rows: it returns, raises ValueError
\* (degenerate rows) or raises something else
FitOutcomes == {"ok", "ValueError", "other"}

\* what model.predict does on the time-step's test rows
PredictOutcomes == {"ok", "raises"}

Pending == [state |-> "pending", row |-> <<>>]

\* np.zeros(len(test_X)) * np.nan
NanRow == [i \in 1..Cardinality(TestStations) |-> RMul(R(0), NaN)]

\* model.predict(test_X): one number per test row
PredictedRow(t) == [i \in 1..Cardinality(TestStations) |-> R(t)]

RfFitRuns == [pc |-> "running", err |-> "none"]

\* def fit / def predict: raise NotImplementedError(...)
RfNotImplemented == [pc |-> "raised", err |-> "NotImplementedError"]

CaughtAny(outcome) == outcome # "ok"

\* except ValueError
Caught(outcome) == outcome = "ValueError"

\* train_fn(ts)
TrainFn(t) ==
    IF fit_outcome[t] # "ok"
    THEN IF Caught(fit_outcome[t])
         THEN [state |-> "value", row |-> NanRow]
         ELSE [state |-> "exception", row |-> <<>>]
    ELSE IF predict_outcome[t] = "ok"
         THEN [state |-> "value", row |-> PredictedRow(t)]
         ELSE [state |-> "exception", row |-> <<>>]

RfFit ==
    /\ rf_pc = "start"
    /\ rf_call = "fit"
    /\ rf_pc' = RfNotImplemented.pc
    /\ rf_err' = RfNotImplemented.err
    /\ UNCHANGED <<rf_call, rf_disk, fit_outcome, predict_outcome,
                   pred_y_list, rf_file>>
    /\ UNCHANGED <<runVars, fwdVars, splitVars, seedVars>>

RfPredict ==
    /\ rf_pc = "start"
    /\ rf_call = "predict"
    /\ rf_pc' = RfNotImplemented.pc
    /\ rf_err' = RfNotImplemented.err
    /\ UNCHANGED <<rf_call, rf_disk, fit_outcome, predict_outcome,
                   pred_y_list, rf_file>>
    /\ UNCHANGED <<runVars, fwdVars, splitVars, seedVars>>

\* fit_predict: Parallel(n_jobs=48)(delayed(train_fn)(ts) for ts in ...)
RfFitPredict ==
    /\ rf_pc = "start"
    /\ rf_call = "fit_predict"
    /\ rf_pc' = "running"
    /\ UNCHANGED <<rf_call, rf_err, rf_disk, fit_outcome, predict_outcome,
                   pred_y_list, rf_file>>
    /\ UNCHANGED <<runVars, fwdVars, splitVars, seedVars>>

\* one worker runs train_fn for its time-step; the workers share nothing
RfWorker(t) ==
    /\ rf_pc = "running"
    /\ pred_y_list[t].state = "pending"
    /\ pred_y_list' = [pred_y_list EXCEPT ![t] = TrainFn(t)]
    /\ UNCHANGED <<rf_pc, rf_call, rf_err, rf_disk, fit_outcome,
                   predict_outcome, rf_file>>
    /\ UNCHANGED <<runVars, fwdVars, splitVars, seedVars>>

\* Parallel re-raises a worker's exception in the caller
RfAbort ==
    /\ rf_pc = "running"
    /\ \E t \in Times : pred_y_list[t].state = "exception"
    /\ rf_pc' = "raised"
    /\ rf_err' = "worker"
    /\ UNCHANGED <<rf_call, rf_disk, fit_outcome, predict_outcome,
                   pred_y_list, rf_file>>
    /\ UNCHANGED <<runVars, fwdVars, splitVars, seedVars>>

\* np.array(pred_y_list); test_data[...] = ...; test_data.to_netcdf(...)
RfStore ==
    /\ rf_pc = "running"
    /\ \A t \in Times : pred_y_list[t].state = "value"
    /\ rf_file' = [state |-> "run",
                   rows |-> [k \in 1..NumTimes |-> pred_y_list[k].row]]
    /\ rf_pc' = "done"
    /\ UNCHANGED <<rf_call, rf_err, rf_disk, fit_outcome, predict_outcome,
                   pred_y_list>>
    /\ UNCHANGED <<runVars, fwdVars, splitVars, seedVars>>

\* ----------------------------------------------------------- specifications
DiskStates == {"absent", "stale"}

InitRun(disk, at) ==
    /\ pc = at
    /\ err = "none"
    /\ meta_dict = NoStats
    /\ meta = NoStats
    /\ train_df = [s \in TrainStations |-> R(trainFeat[s])]
    /\ test_df = [s \in TestStations |-> R(testFeat[s])]
    /\ epoch = 0
    /\ batchIdx = 0
    /\ epoch_loss = R(0)
    /\ losses = <<>>
    /\ best_loss = Inf
    /\ paramsNaN = FALSE
    /\ saved = <<>>
    /\ modelFile = [state |-> disk, epoch |-> 0]
    /\ metaFile = [state |-> disk, min |-> 0, max |-> 0, nlosses |-> 0]
    /\ predFile = [state |-> disk, rows |-> <<>>]
    /\ y_pred = <<>>

IdleFwd ==
    /\ fw_pc = "idle"
    /\ enc = [x \in FeatX |-> <<>>]
    /\ repr_dim = 0
    /\ noise_var = R(1)
    /\ x_context = <<>>
    /\ y_context = <<>>
    /\ x_target = <<>>
    /\ mean = R(0)
    /\ var = R(0)
    /\ y_norm = <<>>
    /\ context_repr = NoMatrix
    /\ target_repr = NoMatrix
    /\ cov = NoMatrix
    /\ xty = <<>>
    /\ chol = [L |-> NoMatrix, D |-> <<>>]
    /\ w = <<>>
    /\ y_pred_n = <<>>
    /\ y_out = <<>>

IdleSplit ==
    /\ sp_pc = "idle"
    /\ df_rows = 0
    /\ df_missing = {}
    /\ context_fraction = <<0, 1>>
    /\ np_state = 0
    /\ X = <<>>
    /\ idx = <<>>
    /\ X_context = <<>>
    /\ X_target = <<>>

IdleSeed ==
    /\ sd_pc = "idle"
    /\ random_state = 0
    /\ sd_rows = 0
    /\ torch_rng = 0
    /\ np_rng = 0
    /\ order = <<>>
    /\ pos = 0
    /\ perms = <<>>
    /\ permsA = <<>>

IdleRf ==
    /\ rf_pc = "idle"
    /\ rf_call = "none"
    /\ rf_err = "none"
    /\ rf_disk = "absent"
    /\ fit_outcome = [t \in Times |-> "ok"]
    /\ predict_outcome = [t \in Times |-> "ok"]
    /\ pred_y_list = [t \in Times |-> Pending]
    /\ rf_file = [state |-> "absent", rows |-> <<>>]

IdleRun ==
    /\ trainFeat = [s \in TrainStations |-> 0]
    /\ testFeat = [s \in TestStations |-> 0]
    /\ testTs = DatasetTs
    /\ cfgBatch = 1
    /\ cfgEpochs = 0
    /\ InitRun("absent", "idle")

\* fit_predict on one fixed data set, every loss history within MaxSteps
Init ==
    /\ trainFeat = [s \in TrainStations |-> s - 1]
    /\ testFeat = [s \in TestStations |-> s - 3]
    /\ testTs = DatasetTs
    /\ cfgBatch \in 1..NumTimes
    /\ cfgEpochs \in 0..MaxSteps
    /\ cfgEpochs * NumBatches(cfgBatch) <= MaxSteps
    /\ \E disk \in DiskStates : InitRun(disk, "start")
    /\ IdleFwd
    /\ IdleSplit
    /\ IdleSeed
    /\ IdleRf

\* fit_predict for one epoch on every data set within the bounds
InitData ==
    /\ trainFeat \in [TrainStations -> FeatVals]
    /\ testFeat \in [TestStations -> FeatVals]
    /\ testTs \in InjSeqs(Times)
    /\ cfgBatch \in 1..NumTimes
    /\ cfgEpochs = 1
    /\ \E disk \in DiskStates : InitRun(disk, "start")
    /\ IdleFwd
    /\ IdleSplit
    /\ IdleSeed
    /\ IdleRf

Next ==
    \/ FitStart
    \/ FitBatch
    \/ FitBatchRaise
    \/ FitEpochEnd
    \/ FitSaveMeta
    \/ PredictLoadMeta
    \/ PredictLoadModel
    \/ PredictBatch
    \/ PredictBatchRaise
    \/ PredictStore

Spec == Init /\ [][Next]_vars

SpecData == InitData /\ [][Next]_vars

\* one forward pass of one batch member (vmap maps single_dim_calc over the
\* members independently), on every input within the bounds; the context
\* points are enumerated up to their order
InitFwd ==
    /\ IdleRun
    /\ IdleSplit
    /\ IdleSeed
    /\ IdleRf
    /\ fw_pc = "start"
    /\ repr_dim \in ReprDims
    /\ enc \in [FeatX -> [1..repr_dim -> ReprVals]]
    /\ noise_var \in NoiseVars
    /\ \E n \in 0..MaxCtx :
        /\ x_context \in [1..n -> FeatX]
        /\ y_context \in [1..n -> YVals]
        /\ \A i \in 1..(n - 1) :
             \/ x_context[i] < x_context[i + 1]
             \/ x_context[i] = x_context[i + 1] /\ y_context[i] <= y_context[i + 1]
    /\ x_target \in {<<1>>, <<0, 1>>}
    /\ mean = R(0)
    /\ var = R(0)
    /\ y_norm = <<>>
    /\ context_repr = NoMatrix
    /\ target_repr = NoMatrix
    /\ cov = NoMatrix
    /\ xty = <<>>
    /\ chol = [L |-> NoMatrix, D |-> <<>>]
    /\ w = <<>>
    /\ y_pred_n = <<>>
    /\ y_out = <<>>

NextFwd ==
    \/ FwNormalise
    \/ FwEncode
    \/ FwAssemble
    \/ FwSolve
    \/ FwPredict

SpecFwd == InitFwd /\ [][NextFwd]_vars

\* __getitem__ called again and again on one time-step's table: df_rows
\* rows of which at most one has a missing target, every fraction k/FracDen
\* and every generator state
InitSplit ==
    /\ IdleRun
    /\ IdleFwd
    /\ IdleSeed
    /\ IdleRf
    /\ sp_pc = "start"
    /\ df_rows \in 0..MaxN
    /\ df_missing \in {{}} \cup {{i} : i \in 1..df_rows}
    /\ context_fraction \in {<<k, FracDen>> : k \in 0..FracDen}
    /\ np_state \in RngStates
    /\ X = <<>>
    /\ idx = <<>>
    /\ X_context = <<>>
    /\ X_target = <<>>

NextSplit == GetItemSplit

SpecSplit == InitSplit /\ [][NextSplit]_vars

\* fit called twice with the same config.random_state on the same data
InitSeed ==
    /\ IdleRun
    /\ IdleFwd
    /\ IdleSplit
    /\ IdleRf
    /\ sd_pc = "A_seed"
    /\ random_state \in Seeds
    /\ sd_rows \in 2..3
    /\ torch_rng \in TorchStates
    /\ np_rng \in RngStates
    /\ order = <<>>
    /\ pos = 0
    /\ perms = <<>>
    /\ permsA = <<>>

NextSeed ==
    \/ FitSeed
    \/ FitGetItem
    \/ FitAgain
    \/ FitReturn

SpecSeed == InitSeed /\ [][NextSeed]_vars

\* one call of the random-forest module in each of its three modes
InitRf ==
    /\ IdleRun
    /\ IdleFwd
    /\ IdleSplit
    /\ IdleSeed
    /\ rf_pc = "start"
    /\ rf_call \in RfModes
    /\ rf_err = "none"
    /\ rf_disk \in DiskStates
    /\ fit_outcome \in [Times -> FitOutcomes]
    /\ predict_outcome \in [Times -> PredictOutcomes]
    /\ pred_y_list = [t \in Times |-> Pending]
    /\ rf_file = [state |-> rf_disk, rows |-> <<>>]

NextRf ==
    \/ RfFit
    \/ RfPredict
    \/ RfFitPredict
    \/ \E t \in Times : RfWorker(t)
    \/ RfAbort
    \/ RfStore

SpecRf == InitRf /\ [][NextRf]_vars


\* ------------------------------------------------------------------- claims
PredictPcs == {"predict", "load_model", "pbatch", "store", "done"}

\* C1: model.pt is written at the end of epoch k exactly when the loss of
\* epoch k is a number strictly smaller than every loss of epochs 1..k-1
\* (the first epoch checkpoints when its loss is finite; an equal or larger
\* loss never checkpoints), and the file on disk is the one of the last such
\* epoch; for the losses [5, 3, 4, 2] that is after epochs 1, 2 and 4 only.
C1_CheckpointOnImprovement ==
    /\ Len(saved) = Len(losses)
    /\ \A k \in 1..Len(losses) :
         saved[k] <=> /\ IsFinite(losses[k])
                      /\ \A j \in 1..(k - 1) : RLt(losses[k], losses[j])
    /\ modelFile.state = "run" <=> \E k \in 1..Len(saved) : saved[k]
    /\ modelFile.state = "run" =>
         /\ saved[modelFile.epoch]
         /\ \A k \in (modelFile.epoch + 1)..Len(saved) : ~saved[k]
    /\ losses = <<R(5), R(3), R(4), R(2)>> => saved = <<TRUE, TRUE, FALSE, TRUE>>

C1_Witness ==
    /\ losses = <<R(5), R(3), R(4), R(2)>>
    /\ saved = <<TRUE, TRUE, FALSE, TRUE>>
    /\ modelFile = [state |-> "run", epoch |-> 4]

C7_StatsState ==
    /\ pc # "start" => meta_dict = FeatureStats(trainFeat)
    /\ metaFile.state = "run" =>
         /\ metaFile.min = FeatureStats(trainFeat).min
         /\ metaFile.max = FeatureStats(trainFeat).max
    /\ (pc \in PredictPcs \ {"predict"}) =>
         /\ meta = [min |-> metaFile.min, max |-> metaFile.max]
         /\ train_df = MinMaxScale(trainFeat, meta)
         /\ test_df = MinMaxScale(testFeat, meta)

C7_StatsFrozen ==
    /\ []C7_StatsState
    /\ [][(pc # "start" => meta_dict' = meta_dict)
          /\ (pc \in PredictPcs => metaFile' = metaFile)]_vars

C7_Witness ==
    /\ pc = "done"
    /\ FeatureStats(testFeat).min < FeatureStats(trainFeat).min
    /\ meta = FeatureStats(trainFeat)

\* C10: after predict the row stored at the k-th time coordinate of the
\* test array was computed from the training rows and the test rows of
\* that same time.
C10_RowsMatchTime ==
    pc = "done" =>
        \A k \in 1..Len(testTs) :
            /\ predFile.rows[k].time = testTs[k]
            /\ predFile.rows[k].ctx = {<<testTs[k], s>> : s \in TrainStations}
            /\ predFile.rows[k].tgt = {<<testTs[k], s>> : s \in TestStations}

\* reference linear algebra for C3: the system written out entry by entry,
\* its determinant by cofactor expansion and its solution by Cramer's rule
RefPhi(xs) ==
    [n \in 1..Len(xs) |-> [j \in 1..(repr_dim + 1) |->
        IF j <= repr_dim THEN R(enc[xs[n]][j]) ELSE R(1)]]

RefCov ==
    LET P == RefPhi(x_context)
    IN  [i \in 1..(repr_dim + 1) |-> [j \in 1..(repr_dim + 1) |->
            RAdd(RSum([n \in 1..Len(P) |-> RMul(P[n][i], P[n][j])]),
                 IF i = j THEN noise_var ELSE R(0))]]

RefRhs ==
    LET P == RefPhi(x_context)
    IN  [i \in 1..(repr_dim + 1) |->
            RSum([n \in 1..Len(P) |-> RMul(P[n][i], y_norm[n])])]

Minor(A, c) ==
    [i \in 1..(Len(A) - 1) |-> [j \in 1..(Len(A) - 1) |->
        A[i + 1][IF j < c THEN j ELSE j + 1]]]

RECURSIVE Det(_)
Det(A) ==
    IF Len(A) = 1 THEN A[1][1]
    ELSE RSum([c \in 1..Len(A) |->
                 RMul(RMul(R(IF c % 2 = 1 THEN 1 ELSE -1), A[1][c]),
                      Det(Minor(A, c)))])

\* Cramer's rule: the i-th unknown is det(A with column i := b) / d, d = det(A)
Cramer(A, b, d) ==
    [i \in 1..Len(A) |->
        RDiv(Det([r \in 1..Len(A) |-> [c \in 1..Len(A) |->
                    IF c = i THEN b[r] ELSE A[r][c]]]), d)]

\* C3: after the solve, w solves (Phi_c^T Phi_c + sigma^2 I) w = Phi_c^T y_c
\* with Phi_c the bias-augmented context representation and sigma^2 > 0 on
\* every diagonal entry (the bias entry included); the system is
\* non-singular, so w is its only solution and equals the reference solve;
\* the prediction on the normalised scale is Phi_t w.
C3_RidgeClosedForm ==
    fw_pc \in {"solved", "done"} =>
        /\ RLt(R(0), noise_var)
        /\ cov = RefCov
        /\ xty = RefRhs
        /\ LET d == Det(cov)
           IN  RLt(R(0), d) /\ w = Cramer(cov, xty, d)
        /\ \A i \in 1..(repr_dim + 1) :
             RSum([j \in 1..(repr_dim + 1) |-> RMul(cov[i][j], w[j])]) = xty[i]
        /\ LET Pt == RefPhi(x_target)
           IN  y_pred_n = [m \in 1..Len(x_target) |->
                             RSum([j \in 1..(repr_dim + 1) |->
                                   RMul(Pt[m][j], w[j])])]

C3_Witness ==
    /\ fw_pc = "done"
    /\ Len(x_context) >= repr_dim + 2
    /\ IsFinite(var)
    /\ var[1] > 0
    /\ \A i \in 1..(repr_dim + 1) : IsFinite(w[i]) /\ w[i] # R(0)
    /\ \E i, j \in 1..(repr_dim + 1) : i # j /\ cov[i][j] # R(0)

NoiseIdentity ==
    [i \in 1..(repr_dim + 1) |-> [j \in 1..(repr_dim + 1) |->
        IF i = j THEN noise_var ELSE R(0)]]

\* C6 as stated: with an empty context the forward pass does not raise, the
\* covariance is sigma^2 I, the weights are zero and the call returns a
\* prediction (a number) for every target point.
C6_EmptyContextPredicts ==
    /\ \A n \in 0..MaxN : NumContext(<<0, FracDen>>, n) = 0
    /\ Len(x_context) = 0 =>
        /\ fw_pc # "raised"
        /\ fw_pc \in {"factor", "solved", "done"} => cov = NoiseIdentity
        /\ fw_pc \in {"solved", "done"} =>
             w = [i \in 1..(repr_dim + 1) |-> R(0)]
        /\ fw_pc = "done" =>
             /\ Len(y_out) = Len(x_target)
             /\ \A m \in 1..Len(y_out) : IsFinite(y_out[m])

\* C6 amended: with an empty context the forward pass does not raise, the
\* covariance is sigma^2 I and the weights are zero, and the call returns
\* one value per target point, but every value is NaN, because the mean
\* and the standard deviation of an empty context are NaN and the result
\* is 0 * std + mean.
C6_EmptyContextNaN ==
    /\ \A n \in 0..MaxN : NumContext(<<0, FracDen>>, n) = 0
    /\ Len(x_context) = 0 =>
        /\ fw_pc # "raised"
        /\ fw_pc \in {"factor", "solved", "done"} => cov = NoiseIdentity
        /\ fw_pc \in {"solved", "done"} =>
             /\ w = [i \in 1..(repr_dim + 1) |-> R(0)]
             /\ y_pred_n = [m \in 1..Len(x_target) |-> R(0)]
        /\ fw_pc \notin {"start"} => IsNaN(mean) /\ IsNaN(var)
        /\ fw_pc = "done" =>
             /\ Len(y_out) = Len(x_target)
             /\ \A m \in 1..Len(y_out) : IsNaN(y_out[m])

C6_Witness ==
    /\ fw_pc = "done"
    /\ Len(x_context) = 0
    /\ Len(y_out) = Len(x_target)
    /\ Len(x_target) = 2

SetOf(sq) == {sq[i] : i \in 1..Len(sq)}

\* C4: of the N rows with a target, the context holds floor(f*N) and the
\* target set the other N - floor(f*N); the two are a prefix and the rest
\* of one permutation of the rows, so they are disjoint and cover each row
\* once.  N = 10 and f = 0.7 give 7 and 3, and a larger fraction never
\* gives a smaller context for the same N.
C4_SplitSizes ==
    sp_pc = "done" =>
        LET N == df_rows - Cardinality(df_missing)
            num == context_fraction[1]
            den == context_fraction[2]
        IN  /\ Len(X) = N
            /\ SetOf(X) = (1..df_rows) \ df_missing
            /\ Len(X_context) * den <= num * N
            /\ num * N < (Len(X_context) + 1) * den
            /\ Len(X_target) = N - Len(X_context)
            /\ SetOf(idx) = 1..N /\ Len(idx) = N
            /\ X_context \o X_target = [k \in 1..N |-> X[idx[k]]]
            /\ SetOf(X_context) \cap SetOf(X_target) = {}
            /\ SetOf(X_context) \cup SetOf(X_target) = SetOf(X)
            /\ Cardinality(SetOf(X_context)) = Len(X_context)
            /\ Cardinality(SetOf(X_target)) = Len(X_target)
            /\ (N = 10 /\ num * 10 = 7 * den) =>
                 (Len(X_context) = 7 /\ Len(X_target) = 3)
            /\ \A g \in num..den :
                 NumContext(<<g, den>>, N) >= Len(X_context)

C4_Witness ==
    /\ sp_pc = "done"
    /\ df_rows = 10
    /\ df_missing = {}
    /\ context_fraction[1] * 10 = 7 * context_fraction[2]
    /\ Len(X_context) = 7
    /\ Len(X_target) = 3
    /\ idx # [i \in 1..10 |-> i]

\* C5: two calls of fit that agree on config.random_state and on the data
\* draw the same permutation for every time-step, whatever the state of
\* the generators before each call.
C5_SameSeedSameSplits ==
    sd_pc = "done" => \A t \in Times : perms[t] = permsA[t]

Uncaught(t) ==
    \/ fit_outcome[t] = "other"
    \/ fit_outcome[t] = "ok" /\ predict_outcome[t] = "raises"

\* C8 as stated: no failure of a time-step's worker aborts fit_predict; the
\* failed time-steps get a row of NaN, the others their prediction, and
\* predictions.nc is written with one row per time-step.
C8_NeverAborts ==
    rf_call = "fit_predict" =>
        /\ rf_pc # "raised"
        /\ rf_pc = "done" =>
             /\ rf_file.state = "run"
             /\ Len(rf_file.rows) = NumTimes
             /\ \A t \in Times :
                  rf_file.rows[t] = IF fit_outcome[t] = "ok" /\ predict_outcome[t] = "ok"
                                    THEN PredictedRow(t) ELSE NanRow

\* C8 amended: a ValueError raised by model.fit for a time-step never aborts
\* fit_predict: that time-step's row is NaN for every test point, every
\* other row is its model's prediction, and predictions.nc is written with
\* one row per time-step.  Any other failure of a worker (another exception
\* in model.fit, or any exception in model.predict) aborts the run, and
\* predictions.nc is not written.
C8_ValueErrorOnly ==
    rf_call = "fit_predict" =>
        /\ rf_pc = "raised" =>
             /\ \E t \in Times : Uncaught(t)
             /\ rf_file.state = rf_disk
        /\ rf_pc = "done" =>
             /\ \A t \in Times : ~Uncaught(t)
             /\ rf_file.state = "run"
             /\ Len(rf_file.rows) = NumTimes
             /\ \A t \in Times :
                  /\ Len(rf_file.rows[t]) = Cardinality(TestStations)
                  /\ fit_outcome[t] = "ValueError" =>
                       \A i \in 1..Len(rf_file.rows[t]) : IsNaN(rf_file.rows[t][i])
                  /\ fit_outcome[t] = "ok" => rf_file.rows[t] = PredictedRow(t)
        /\ rf_file.state = "run" => rf_pc = "done"

C8_Witness ==
    /\ rf_call = "fit_predict"
    /\ rf_pc = "done"
    /\ \E t \in Times : fit_outcome[t] = "ValueError"
    /\ \E t \in Times : fit_outcome[t] = "ok"

\* C9: fit and predict of the random-forest module only raise
\* NotImplementedError: no worker runs and nothing is written; only
\* fit_predict does work.
C9_State ==
    /\ rf_call \in {"fit", "predict"} =>
         /\ rf_pc \in {"start", "raised"}
         /\ rf_pc = "raised" => rf_err = "NotImplementedError"
         /\ rf_file = [state |-> rf_disk, rows |-> <<>>]
         /\ \A t \in Times : pred_y_list[t] = Pending
    /\ (rf_file.state = "run" \/ \E t \in Times : pred_y_list[t] # Pending)
         => rf_call = "fit_predict"

C9_Step ==
    rf_call \in {"fit", "predict"} =>
        /\ rf_pc' = "raised"
        /\ rf_err' = "NotImplementedError"
        /\ rf_file' = rf_file
        /\ pred_y_list' = pred_y_list

C9_FitPredictOnly == []C9_State /\ [][C9_Step]_vars

C9_Witness ==
    /\ rf_call \in {"fit", "predict"}
    /\ rf_pc = "raised"
    /\ rf_err = "NotImplementedError"

====
